---- MODULE Spec2Model ----
(***************************************************************************)
(* Model of the Fijian data cleaning pipeline                              *)
(* (src/src/fijian_data_cleaning_pipeline.py, class FijianDataCleaner).    *)
(*                                                                         *)
(* A Python str is a sequence of one-character strings.  The pure          *)
(* functions clean_text and is_valid_fijian_text are operators; the        *)
(* extractors and the driver are actions over the cleaner's state.         *)
(***************************************************************************)
EXTENDS Integers, Sequences, FiniteSets, TLC

VARIABLES
    pc,                 \* control position of the specification being run
    text,               \* argument of clean_text / is_valid_fijian_text
    order,              \* order in which the validator's three checks are evaluated
    result,             \* value returned by the function applied
    file,               \* file handed to process_dictionary_file
    fault,              \* 0, or the read at which process_dictionary_file's I/O raised
    returned,           \* list returned by process_dictionary_file
    input_paths,        \* the paths the user has put under self.input_dir
    output_inside,      \* whether self.output_dir is self.input_dir itself
    pending,            \* the paths input_dir.rglob('*') has yet to yield in this run
    listing,            \* the paths it has yielded in this run, in order
    dictionary_entries, \* local of process_all_files
    text_sentences,     \* local of process_all_files
    training_data,      \* local of create_training_data
    stats,              \* self.stats
    output_dir,         \* files under self.output_dir: name -> content, or Absent
    visits,             \* per file this run has visited: the extractor run, and what it gave
    run                 \* number of calls of process_all_files on this cleaner

vars == <<pc, text, order, result, file, fault, returned, input_paths,
          output_inside, pending, listing,
          dictionary_entries, text_sentences, training_data, stats,
          output_dir, visits, run>>

-----------------------------------------------------------------------------
(* Strings.                                                                *)

\* A Python string literal as a sequence of characters.
Chars(s) == [i \in 1..Len(s) |-> SubSeq(s, i, i)]

Range(s) == {s[i] : i \in DOMAIN s}

LowerLetters == Chars("abcdefghijklmnopqrstuvwxyz")
UpperLetters == Chars("ABCDEFGHIJKLMNOPQRSTUVWXYZ")
Digits == Chars("0123456789")

\* str.isspace / the regex class \s, on the characters the model uses.
IsSpace(c) == c \in {" ", "\t", "\n", "\r"}

\* str.isalpha, on the characters the model uses.
IsAlpha(c) == c \in Range(LowerLetters) \cup Range(UpperLetters)

\* The regex class \w: letters, digits and the underscore.
IsWord(c) == IsAlpha(c) \/ c \in Range(Digits) \/ c = "_"

\* The punctuation the character class of line 84 keeps: - ' . , ; : ! ? ( )
KeptPunctuation == {"-", "'", ".", ",", ";", ":", "!", "?", "(", ")"}

\* str.lower, character by character.
LowerChar(c) ==
    IF c \in Range(UpperLetters)
    THEN LowerLetters[CHOOSE i \in DOMAIN UpperLetters : UpperLetters[i] = c]
    ELSE c

lower(s) == [i \in DOMAIN s |-> LowerChar(s[i])]

\* s[i:] of Python with a 1-based i.
From(s, i) == SubSeq(s, i, Len(s))

\* Whether sub occurs in s at position i.
OccursAt(sub, s, i) ==
    /\ i >= 1
    /\ i + Len(sub) - 1 <= Len(s)
    /\ SubSeq(s, i, i + Len(sub) - 1) = sub

\* The Python operator `sub in s`.
Contains(sub, s) == \E i \in 1..(Len(s) + 1) : OccursAt(sub, s, i)

\* str.find, 1-based; 0 when sub does not occur.
Find(sub, s) ==
    IF Contains(sub, s)
    THEN CHOOSE i \in 1..(Len(s) + 1) :
            /\ OccursAt(sub, s, i)
            /\ \A j \in 1..(i - 1) : ~OccursAt(sub, s, j)
    ELSE 0

\* str.strip(): leading and trailing whitespace removed.
RECURSIVE lstrip(_)
lstrip(s) ==
    IF s = <<>> THEN <<>>
    ELSE IF IsSpace(Head(s)) THEN lstrip(Tail(s))
    ELSE s

RECURSIVE rstrip(_)
rstrip(s) ==
    IF s = <<>> THEN <<>>
    ELSE IF IsSpace(s[Len(s)]) THEN rstrip(SubSeq(s, 1, Len(s) - 1))
    ELSE s

strip(s) == rstrip(lstrip(s))

\* str.split(): the maximal runs of non-whitespace characters.
RECURSIVE TakeWord(_)
TakeWord(s) ==
    IF s = <<>> \/ IsSpace(Head(s)) THEN <<>>
    ELSE <<Head(s)>> \o TakeWord(Tail(s))

RECURSIVE split(_)
split(s) ==
    LET t == lstrip(s)
        w == TakeWord(t)
    IN  IF t = <<>> THEN <<>>
        ELSE <<w>> \o split(From(t, Len(w) + 1))

\* str(n) for a natural number n.
RECURSIVE Decimal(_)
Decimal(n) ==
    IF n < 10 THEN <<Digits[n + 1]>>
    ELSE Decimal(n \div 10) \o <<Digits[(n % 10) + 1]>>

-----------------------------------------------------------------------------
(* clean_text, lines 64-92.                                                *)

\* re.sub(r'<[^>]+>', '', text): scanning from the left, a '<' followed by
\* at least one character other than '>' and then a '>' is removed with
\* everything in between; the scan resumes after the '>'.
RECURSIVE StripTags(_)
StripTags(s) ==
    IF s = <<>> THEN <<>>
    ELSE LET close == Find(<<">">>, Tail(s))  \* position in Tail(s) of the first '>'
         IN  IF Head(s) = "<" /\ close >= 2
             THEN StripTags(From(Tail(s), close + 1))
             ELSE <<Head(s)>> \o StripTags(Tail(s))

\* re.sub(r'\s+', ' ', text): every run of whitespace becomes one space.
RECURSIVE CollapseWhitespace(_)
CollapseWhitespace(s) ==
    IF s = <<>> THEN <<>>
    ELSE IF IsSpace(Head(s))
         THEN <<" ">> \o CollapseWhitespace(lstrip(s))
         ELSE <<Head(s)>> \o CollapseWhitespace(Tail(s))

\* re.sub(r'[^\w\s\-\'\.,;:!?()]', '', text): every other character is dropped.
IsKept(c) == IsWord(c) \/ IsSpace(c) \/ c \in KeptPunctuation

RemovePunctuation(s) == SelectSeq(s, IsKept)

\* The four steps in the order of the code (a str argument; the empty
\* string returns at line 75).
clean_text(t) ==
    IF t = <<>> THEN <<>>
    ELSE strip(RemovePunctuation(CollapseWhitespace(StripTags(t))))

-----------------------------------------------------------------------------
(* is_valid_fijian_text, lines 94-119.                                     *)

\* Line 104: not text or len(text.strip()) < 3.
LengthTooShort(t) == t = <<>> \/ Len(strip(t)) < 3

\* Line 108: len(text.split()) < 2.
TooFewWords(t) == Len(split(t)) < 2

\* Line 112: sum(c.isalpha() for c in text).
alpha_chars(t) == Len(SelectSeq(t, IsAlpha))

\* A variant of line 113 that compares with <= instead of <.
RatioTooLow_le(t) == 5 * alpha_chars(t) <= 3 * Len(t)

\* Line 113: alpha_chars / len(text) < 0.6, for a non-empty text.  The
\* quotient of two small integers is below the double 0.6 exactly when
\* 5 * alpha_chars < 3 * len(text).
RatioTooLow(t) == 5 * alpha_chars(t) < 3 * Len(t)

\* What evaluating one of the three checks on t does: 1 is line 104, 2 is
\* line 108, 3 is lines 112-113, whose division raises on the empty string.
CheckOutcome(k, t) ==
    CASE k = 1 -> IF LengthTooShort(t) THEN "reject" ELSE "pass"
      [] k = 2 -> IF TooFewWords(t) THEN "reject" ELSE "pass"
      [] k = 3 -> IF Len(t) = 0 THEN "ZeroDivisionError"
                  ELSE IF RatioTooLow(t) THEN "reject" ELSE "pass"

\* The checks evaluated one after the other in the order ord, returning at
\* the first that rejects (or raises); "True" when all have passed.
RECURSIVE EvaluateChecks(_, _)
EvaluateChecks(t, ord) ==
    IF ord = <<>> THEN "True"
    ELSE LET o == CheckOutcome(Head(ord), t)
         IN  IF o = "pass" THEN EvaluateChecks(t, Tail(ord))
             ELSE IF o = "reject" THEN "False"
             ELSE o

\* The order of the code: line 104, then 108, then 112-113.
CodeOrder == <<1, 2, 3>>

is_valid_fijian_text(t) == EvaluateChecks(t, CodeOrder) = "True"

-----------------------------------------------------------------------------
(* Files.  A path is a record: name (file_path.name), is_file, content     *)
(* (the decoded text of the file) and table (what pd.read_csv makes of     *)
(* it: the column names, and per row a function from column name to       *)
(* cell).  A cell is a string, or NaN where the field was empty.           *)

\* str.rfind, 1-based; 0 when sub does not occur.
RFind(sub, s) ==
    IF Contains(sub, s)
    THEN CHOOSE i \in 1..(Len(s) + 1) :
            /\ OccursAt(sub, s, i)
            /\ \A j \in (i + 1)..(Len(s) + 1) : ~OccursAt(sub, s, j)
    ELSE 0

\* PurePath.suffix: the name from its last dot on, unless that dot is the
\* first or the last character of the name.
suffix(name) ==
    LET i == RFind(<<".">>, name)
    IN  IF 1 < i /\ i < Len(name) THEN From(name, i) ELSE <<>>

StrCell(v) == [nan |-> FALSE, value |-> Chars(v)]
NaNCell == [nan |-> TRUE, value |-> <<>>]

\* str(row[column]): the string itself, or 'nan' for NaN.
str(cell) == IF cell.nan THEN Chars("nan") ELSE cell.value

NoTable == [columns |-> {}, rows |-> <<>>]

\* Iterating over an open text file: the lines, each with its terminator.
RECURSIVE SplitLines(_)
SplitLines(s) ==
    IF s = <<>> THEN <<>>
    ELSE LET nl == Find(<<"\n">>, s)
         IN  IF nl = 0 THEN <<s>>
             ELSE <<SubSeq(s, 1, nl)>> \o SplitLines(From(s, nl + 1))

-----------------------------------------------------------------------------
(* process_dictionary_file, lines 121-175.                                 *)

Separator == Chars(" - ")

\* A variant of lines 143 and 165 with `or` in place of `and`.
Accepted_or(word, definition) ==
    is_valid_fijian_text(word) \/ definition # <<>>

\* Lines 143 and 165: if self.is_valid_fijian_text(word) and definition.
Accepted(word, definition) ==
    is_valid_fijian_text(word) /\ definition # <<>>

\* Lines 139-148: what one row of the data frame appends to entries.
RowEntries(name, columns, row) ==
    IF "fijian_word" \in columns /\ "english_definition" \in columns
    THEN LET word == clean_text(str(row["fijian_word"]))
             definition == clean_text(str(row["english_definition"]))
         IN  IF Accepted(word, definition)
             THEN <<[fijian_word |-> word,
                     english_definition |-> definition,
                     source |-> name]>>
             ELSE <<>>
    ELSE <<>>

\* Lines 160-161: line.split(' - ', 1) of a line that holds the separator.
SplitOnce(line) ==
    LET at == Find(Separator, line)
    IN  <<SubSeq(line, 1, at - 1), From(line, at + Len(Separator))>>

\* Lines 153-170: what line number line_num of the file appends to entries.
LineEntries(name, line_num, raw) ==
    LET line == strip(raw)
    IN  IF line = <<>> THEN <<>>
        ELSE IF Contains(Separator, line)
        THEN LET parts == SplitOnce(line)
                 word == clean_text(parts[1])
                 definition == clean_text(parts[2])
             IN  IF Len(parts) = 2 /\ Accepted(word, definition)
                 THEN <<[fijian_word |-> word,
                         english_definition |-> definition,
                         source |-> name \o Chars(":L") \o Decimal(line_num)]>>
                 ELSE <<>>
        ELSE <<>>

\* Line 136: the loop over df.iterrows(), after its first n rows.
RECURSIVE EntriesFromRows(_, _, _)
EntriesFromRows(name, table, n) ==
    IF n = 0 THEN <<>>
    ELSE EntriesFromRows(name, table, n - 1)
         \o RowEntries(name, table.columns, table.rows[n])

\* A variant of line 152 that numbers only the lines that are not blank.
RECURSIVE NonBlank(_, _)
NonBlank(lines, n) ==
    IF n = 0 THEN 0
    ELSE NonBlank(lines, n - 1) + (IF strip(lines[n]) = <<>> THEN 0 ELSE 1)

RECURSIVE EntriesFromLines_nonblank(_, _, _)
EntriesFromLines_nonblank(name, lines, n) ==
    IF n = 0 THEN <<>>
    ELSE EntriesFromLines_nonblank(name, lines, n - 1)
         \o LineEntries(name, NonBlank(lines, n), lines[n])

\* Line 152: the loop over enumerate(f, 1), after its first n lines.
RECURSIVE EntriesFromLines(_, _, _)
EntriesFromLines(name, lines, n) ==
    IF n = 0 THEN <<>>
    ELSE EntriesFromLines(name, lines, n - 1)
         \o LineEntries(name, n, lines[n])

\* The reads of a dictionary file that can raise: pd.read_csv of a .csv
\* file; for a .txt file open() and the read of each line (a decoding
\* error is raised when the bytes of that line are reached).  0 is a run
\* in which nothing raises; a file of another extension is never read.
IsCsv(f) == lower(suffix(f.name)) = Chars(".csv")
IsTxt(f) == lower(suffix(f.name)) = Chars(".txt")

DictionaryFaults(f) ==
    IF IsCsv(f) THEN {0, 1}
    ELSE IF IsTxt(f)
    THEN LET n == Len(SplitLines(f.content))
         IN  0..(IF n = 0 THEN 1 ELSE n)
    ELSE {0}

\* The whole method: the entries appended before the read numbered flt
\* raised (all of them when flt = 0), returned at line 175 after the
\* except clause of lines 172-173.
process_dictionary_file(f, flt) ==
    IF IsCsv(f)
    THEN IF flt # 0 THEN <<>>
         ELSE EntriesFromRows(f.name, f.table, Len(f.table.rows))
    ELSE IF IsTxt(f)
    THEN LET lines == SplitLines(f.content)
         IN  EntriesFromLines(f.name, lines,
                              IF flt = 0 THEN Len(lines) ELSE flt - 1)
    ELSE <<>>

-----------------------------------------------------------------------------
(* process_text_file, lines 177-204.                                       *)

IsTerminal(c) == c \in {".", "!", "?"}

RECURSIVE TakeFragment(_)
TakeFragment(s) ==
    IF s = <<>> \/ IsTerminal(Head(s)) THEN <<>>
    ELSE <<Head(s)>> \o TakeFragment(Tail(s))

RECURSIVE DropTerminals(_)
DropTerminals(s) ==
    IF s # <<>> /\ IsTerminal(Head(s)) THEN DropTerminals(Tail(s)) ELSE s

\* re.split(r'[.!?]+', content).
RECURSIVE SentenceSplit(_)
SentenceSplit(s) ==
    LET fragment == TakeFragment(s)
        rest == From(s, Len(fragment) + 1)
    IN  IF rest = <<>> THEN <<fragment>>
        ELSE <<fragment>> \o SentenceSplit(DropTerminals(rest))

\* Lines 196-199: the fragments that pass the validator once cleaned.
RECURSIVE CleanSentences(_)
CleanSentences(fragments) ==
    IF fragments = <<>> THEN <<>>
    ELSE LET cleaned == clean_text(Head(fragments))
         IN  (IF is_valid_fijian_text(cleaned) THEN <<cleaned>> ELSE <<>>)
             \o CleanSentences(Tail(fragments))

\* The whole method; flt # 0 when open() or f.read() raised, which is
\* before any sentence is appended.
process_text_file(f, flt) ==
    IF flt # 0 THEN <<>>
    ELSE CleanSentences(SentenceSplit(f.content))

-----------------------------------------------------------------------------
(* create_training_data, lines 264-299.                                    *)

\* Lines 275-282.
DefinitionExample(entry) ==
    [instruction |-> Chars("Define the Fijian word: ") \o entry.fijian_word,
     input |-> entry.fijian_word,
     output |-> entry.english_definition,
     task_type |-> "definition"]

\* Lines 285-291: the sentence cut at len(sentence) // 2.
CompletionExample(sentence) ==
    [instruction |-> Chars("Complete the following Fijian text:"),
     input |-> SubSeq(sentence, 1, Len(sentence) \div 2),
     output |-> From(sentence, (Len(sentence) \div 2) + 1),
     task_type |-> "completion"]

\* A variant of lines 275-291 with the two loops in the other order.
create_training_data_sentences_first(entries, sentences) ==
    [j \in 1..Len(sentences) |-> CompletionExample(sentences[j])]
    \o [i \in 1..Len(entries) |-> DefinitionExample(entries[i])]

\* The list training_data once both loops have run.
create_training_data(entries, sentences) ==
    [i \in 1..Len(entries) |-> DefinitionExample(entries[i])]
    \o [j \in 1..Len(sentences) |-> CompletionExample(sentences[j])]

-----------------------------------------------------------------------------
(* process_all_files and save_processed_data, lines 206-262.               *)

\* Line 216: 'dict' in name.lower() or 'dictionary' in name.lower().
IsDictionaryName(name) ==
    \/ Contains(Chars("dict"), lower(name))
    \/ Contains(Chars("dictionary"), lower(name))

\* Line 221: file_path.suffix.lower() in ['.txt', '.csv'].
IsTextExtension(name) ==
    lower(suffix(name)) \in {Chars(".txt"), Chars(".csv")}

\* A variant of lines 216-224 that tests the extension first.
Route_extension_first(name) ==
    IF IsTextExtension(name) THEN "text"
    ELSE IF IsDictionaryName(name) THEN "dictionary"
    ELSE "none"

\* Lines 216-224: the branch taken for a file.
Route(name) ==
    IF IsDictionaryName(name) THEN "dictionary"
    ELSE IF IsTextExtension(name) THEN "text"
    ELSE "none"

\* Lines 57-62.
InitialStats ==
    [files_processed |-> 0, lines_processed |-> 0,
     lines_cleaned |-> 0, lines_removed |-> 0]

\* Line 226.
CountFile(st) == [st EXCEPT !.files_processed = @ + 1]

\* The output directory: per file the list of objects written to it, <<>>
\* while the file does not exist (no file is ever written empty).
EmptyOutput ==
    [fijian_dictionary |-> <<>>, fijian_text |-> <<>>,
     fijian_training_data |-> <<>>, processing_stats |-> <<>>]

\* Lines 240-262 with create_training_data's write of lines 294-298: a
\* .jsonl file is rewritten only when its list is not empty, the
\* statistics always.
save_processed_data(out, entries, sentences, st) ==
    [fijian_dictionary |->
        IF entries # <<>> THEN entries ELSE out.fijian_dictionary,
     fijian_text |->
        IF sentences # <<>>
        THEN [i \in 1..Len(sentences) |-> [text |-> sentences[i]]]
        ELSE out.fijian_text,
     fijian_training_data |->
        IF create_training_data(entries, sentences) # <<>>
        THEN create_training_data(entries, sentences)
        ELSE out.fijian_training_data,
     processing_stats |-> <<st>>]

-----------------------------------------------------------------------------
(* Bounds and input universes.                                             *)

MaxCleanLen == 5
MaxValidLen == 5
MaxLines == 3
MaxRows == 3
MaxFiles == 2      \* paths the user has put under the input directory
MaxRuns == 2       \* calls of process_all_files on one cleaner
MaxListed == 4     \* paths under the input directory when a call starts

\* All strings over alphabet of length at most n.
Strings(alphabet, n) == UNION {[1..k -> alphabet] : k \in 0..n}

\* All lists over universe of length at most n.
Lists(universe, n) == UNION {[1..k -> universe] : k \in 0..n}

RECURSIVE Concat(_)
Concat(ss) == IF ss = <<>> THEN <<>> ELSE Head(ss) \o Concat(Tail(ss))

\* A letter, whitespace of two kinds, a character clean_text drops, and
\* the two angle brackets.
CleanAlphabet == {"a", " ", "\t", "@", "<", ">"}

\* A letter, a digit and whitespace of two kinds.
ValidAlphabet == {"a", "1", " ", "\t"}

\* The six orders in which three checks can be evaluated.
Orders == {o \in [1..3 -> 1..3] : \A i, j \in 1..3 : o[i] = o[j] => i = j}

NoFile == [name |-> <<>>, is_file |-> FALSE, content |-> <<>>, table |-> NoTable]

\* Lines of a word - definition text file.
LineUniverse ==
    {Chars(""),
     Chars("moce"),
     Chars("bula vinaka - hello"),
     Chars("na noda - our - ours"),
     Chars("bula - hello or life"),
     Chars("io saka - @"),
     Chars("lako mai - "),
     Chars("  sa bula - <b>hi</b> you ")}

TxtFile(name, lines) ==
    [name |-> Chars(name), is_file |-> TRUE,
     content |-> Concat([i \in DOMAIN lines |-> lines[i] \o <<"\n">>]),
     table |-> NoTable]

Row(word, definition) ==
    [c \in {"fijian_word", "english_definition"} |->
        IF c = "fijian_word" THEN word ELSE definition]

\* Rows of a data frame with the two columns.
RowUniverse ==
    {Row(StrCell("bula"), StrCell("hello or life")),
     Row(StrCell("vinaka"), StrCell("thank you")),
     Row(StrCell("moce"), StrCell("goodbye")),
     Row(StrCell("bula vinaka"), StrCell("hello")),
     Row(StrCell("na noda"), NaNCell),
     Row(StrCell("io saka"), StrCell("@"))}

CsvFile(name, columns, rows) ==
    [name |-> Chars(name), is_file |-> TRUE, content |-> <<>>,
     table |-> [columns |-> columns,
                rows |-> [i \in DOMAIN rows |-> [c \in columns |-> rows[i][c]]]]]

\* The files process_dictionary_file is applied to.
DictFiles ==
    {TxtFile("dict.txt", lines) : lines \in Lists(LineUniverse, MaxLines)}
    \cup {CsvFile("test_dict.csv", {"fijian_word", "english_definition"}, rows) :
            rows \in Lists(RowUniverse, MaxRows)}
    \cup {CsvFile("words_dict.csv", {"fijian_word"}, rows) :
            rows \in Lists(RowUniverse, MaxRows)}
    \cup {[name |-> Chars("dictionary.json"), is_file |-> TRUE,
           content |-> Chars("bula vinaka - hello"), table |-> NoTable]}

\* The paths of an input directory.
PathUniverse ==
    {CsvFile("test_dict.CSV", {"fijian_word", "english_definition"},
             <<Row(StrCell("bula vinaka"), StrCell("hello")),
               Row(StrCell("moce"), StrCell("goodbye")),
               Row(StrCell("na noda"), StrCell("our land"))>>),
     [name |-> Chars("Dictionary.json"), is_file |-> TRUE,
      content |-> Chars("bula vinaka - hello"), table |-> NoTable],
     TxtFile("my_dict.txt", <<Chars("io saka - yes sir"), Chars("moce")>>),
     TxtFile("notes.txt", <<Chars("Bula vinaka vei kemuni. Moce mada.")>>),
     [name |-> Chars("image.png"), is_file |-> TRUE,
      content |-> <<>>, table |-> NoTable],
     [name |-> Chars("old_dict"), is_file |-> FALSE,
      content |-> <<>>, table |-> NoTable]}

TextIdle == text = <<>> /\ order = CodeOrder /\ result = <<>>

DictIdle == file = NoFile /\ fault = 0 /\ returned = <<>>

DriverIdle ==
    /\ input_paths = {}
    /\ output_inside = FALSE
    /\ pending = {}
    /\ listing = <<>>
    /\ dictionary_entries = <<>>
    /\ text_sentences = <<>>
    /\ training_data = <<>>
    /\ stats = InitialStats
    /\ output_dir = EmptyOutput
    /\ visits = <<>>
    /\ run = 0

textVars == <<text, order, result>>
dictVars == <<file, fault, returned>>
driverVars == <<input_paths, output_inside, pending, listing,
                dictionary_entries, text_sentences,
                training_data, stats, output_dir, visits, run>>

-----------------------------------------------------------------------------
(* SpecClean: clean_text applied to a string, and again to its result.     *)

InitClean ==
    /\ pc = "raw"
    /\ text \in Strings(CleanAlphabet, MaxCleanLen)
    /\ order = CodeOrder
    /\ result = <<>>
    /\ DictIdle
    /\ DriverIdle

Clean ==
    /\ pc = "raw"
    /\ result' = clean_text(text)
    /\ pc' = "cleaned"
    /\ UNCHANGED <<text, order, dictVars, driverVars>>

CleanAgain ==
    /\ pc = "cleaned"
    /\ text' = result
    /\ result' = clean_text(result)
    /\ pc' = "recleaned"
    /\ UNCHANGED <<order, dictVars, driverVars>>

NextClean == Clean \/ CleanAgain

SpecClean == InitClean /\ [][NextClean]_vars

-----------------------------------------------------------------------------
(* SpecValid: the validator's checks applied to a string, in some order.   *)

InitValid ==
    /\ pc = "unvalidated"
    /\ text \in Strings(ValidAlphabet, MaxValidLen)
    /\ order \in Orders
    /\ result = <<>>
    /\ DictIdle
    /\ DriverIdle

Validate ==
    /\ pc = "unvalidated"
    /\ result' = EvaluateChecks(text, order)
    /\ pc' = "validated"
    /\ UNCHANGED <<text, order, dictVars, driverVars>>

NextValid == Validate

SpecValid == InitValid /\ [][NextValid]_vars

-----------------------------------------------------------------------------
(* SpecDict: process_dictionary_file applied to a file.                    *)

InitDict ==
    /\ pc = "unread"
    /\ file \in DictFiles
    /\ fault = 0
    /\ returned = <<>>
    /\ TextIdle
    /\ DriverIdle

ExtractDictionary ==
    /\ pc = "unread"
    /\ \E flt \in DictionaryFaults(file) :
        /\ fault' = flt
        /\ returned' = process_dictionary_file(file, flt)
    /\ pc' = "returned"
    /\ UNCHANGED <<file, textVars, driverVars>>

NextDict == ExtractDictionary

SpecDict == InitDict /\ [][NextDict]_vars

-----------------------------------------------------------------------------
(* Spec: a cleaner on an input directory; process_all_files called on it   *)
(* up to MaxRuns times.                                                    *)

Init ==
    /\ pc = "idle"
    /\ input_paths \in {S \in SUBSET PathUniverse : Cardinality(S) <= MaxFiles}
    /\ output_inside \in BOOLEAN
    /\ pending = {}
    /\ listing = <<>>
    /\ dictionary_entries = <<>>
    /\ text_sentences = <<>>
    /\ training_data = <<>>
    /\ stats = InitialStats
    /\ output_dir = EmptyOutput
    /\ visits = <<>>
    /\ run = 0
    /\ TextIdle
    /\ DictIdle

\* The files save_processed_data has written so far, by name.  Their
\* content is JSON text that no branch of the loop reads: neither
\* extractor opens a .jsonl or a .json file.
OutputPath(name) ==
    [name |-> Chars(name), is_file |-> TRUE, content |-> <<>>, table |-> NoTable]

OutputPaths(out) ==
    (IF out.fijian_dictionary # <<>>
     THEN {OutputPath("fijian_dictionary.jsonl")} ELSE {})
    \cup (IF out.fijian_text # <<>>
          THEN {OutputPath("fijian_text.jsonl")} ELSE {})
    \cup (IF out.fijian_training_data # <<>>
          THEN {OutputPath("fijian_training_data.jsonl")} ELSE {})
    \cup (IF out.processing_stats # <<>>
          THEN {OutputPath("processing_stats.json")} ELSE {})

\* Line 212: the paths under self.input_dir when the call starts: the
\* user's and, when the output directory is the input directory, the files
\* earlier calls have written there.
PathsUnder(paths, out, inside) ==
    paths \cup (IF inside THEN OutputPaths(out) ELSE {})

\* Lines 208-212: a call of process_all_files starts with empty lists and
\* lists the input directory anew.  Calls are explored on directories of
\* at most MaxListed paths.
StartRun ==
    /\ pc \in {"idle", "saved"}
    /\ run < MaxRuns
    /\ Cardinality(PathsUnder(input_paths, output_dir, output_inside)) <= MaxListed
    /\ run' = run + 1
    /\ pending' = PathsUnder(input_paths, output_dir, output_inside)
    /\ listing' = <<>>
    /\ dictionary_entries' = <<>>
    /\ text_sentences' = <<>>
    /\ visits' = <<>>
    /\ pc' = "walking"
    /\ UNCHANGED <<input_paths, output_inside, training_data, stats,
                   output_dir, textVars, dictVars>>

\* Line 212: rglob yields the paths in the order the file system lists
\* them, which can be any; p is the next one.
Yield(p) ==
    /\ pc = "walking"
    /\ p \in pending
    /\ pending' = pending \ {p}
    /\ listing' = Append(listing, p)

Visit(name, route, count) ==
    Append(visits, [name |-> name, route |-> route, count |-> count])

\* Line 213: a path that is no file is passed over.
SkipDirectory ==
    \E p \in pending :
        /\ Yield(p)
        /\ ~p.is_file
        /\ UNCHANGED <<pc, input_paths, output_inside, dictionary_entries,
                       text_sentences, training_data, stats, output_dir,
                       visits, run, textVars, dictVars>>

\* Lines 216-219 and 226.
RouteDictionary ==
    \E p \in pending :
        /\ Yield(p)
        /\ p.is_file
        /\ Route(p.name) = "dictionary"
        /\ \E flt \in DictionaryFaults(p) :
            LET entries == process_dictionary_file(p, flt)
            IN  /\ dictionary_entries' = dictionary_entries \o entries
                /\ visits' = Visit(p.name, "dictionary", Len(entries))
        /\ stats' = CountFile(stats)
        /\ UNCHANGED <<pc, input_paths, output_inside, text_sentences,
                       training_data, output_dir, run, textVars, dictVars>>

\* Lines 221-224 and 226.
RouteText ==
    \E p \in pending :
        /\ Yield(p)
        /\ p.is_file
        /\ Route(p.name) = "text"
        /\ \E flt \in {0, 1} :
            LET sentences == process_text_file(p, flt)
            IN  /\ text_sentences' = text_sentences \o sentences
                /\ visits' = Visit(p.name, "text", Len(sentences))
        /\ stats' = CountFile(stats)
        /\ UNCHANGED <<pc, input_paths, output_inside, dictionary_entries,
                       training_data, output_dir, run, textVars, dictVars>>

\* Line 226 alone: neither branch is taken.
RouteNone ==
    \E p \in pending :
        /\ Yield(p)
        /\ p.is_file
        /\ Route(p.name) = "none"
        /\ visits' = Visit(p.name, "none", 0)
        /\ stats' = CountFile(stats)
        /\ UNCHANGED <<pc, input_paths, output_inside, dictionary_entries,
                       text_sentences, training_data, output_dir, run,
                       textVars, dictVars>>

\* Line 229: the loop is over; save_processed_data writes the outputs.
SaveProcessedData ==
    /\ pc = "walking"
    /\ pending = {}
    /\ training_data' = create_training_data(dictionary_entries, text_sentences)
    /\ output_dir' = save_processed_data(output_dir, dictionary_entries,
                                         text_sentences, stats)
    /\ pc' = "saved"
    /\ UNCHANGED <<input_paths, output_inside, pending, listing,
                   dictionary_entries, text_sentences, stats,
                   visits, run, textVars, dictVars>>

Next ==
    \/ StartRun
    \/ SkipDirectory
    \/ RouteDictionary
    \/ RouteText
    \/ RouteNone
    \/ SaveProcessedData

Spec == Init /\ [][Next]_vars

-----------------------------------------------------------------------------
(* Properties.                                                             *)

BothColumns == {"fijian_word", "english_definition"}

\* A row whose headword is a single word and whose definition is a
\* non-empty string.
SingleWordRow(row) ==
    /\ ~row["fijian_word"].nan
    /\ Len(split(row["fijian_word"].value)) = 1
    /\ ~row["english_definition"].nan
    /\ clean_text(row["english_definition"].value) # <<>>

\* C1: a .csv file with both columns whose rows are single-word headwords
\* with non-empty definitions yields exactly one entry per row, in row
\* order, each {cleaned headword, cleaned definition, file name}.
C1_OneEntryPerRow ==
    (/\ pc = "returned"
     /\ fault = 0
     /\ IsCsv(file)
     /\ file.table.columns = BothColumns
     /\ \A i \in DOMAIN file.table.rows : SingleWordRow(file.table.rows[i]))
    => /\ Len(returned) = Len(file.table.rows)
       /\ \A i \in DOMAIN returned :
            returned[i] =
                [fijian_word |-> clean_text(file.table.rows[i]["fijian_word"].value),
                 english_definition |->
                    clean_text(file.table.rows[i]["english_definition"].value),
                 source |-> file.name]

\* C2: clean_text is idempotent: cleaning a cleaned string returns it
\* unchanged.
C2_CleanTextIdempotent ==
    pc = "recleaned" => result = text

\* C3: when a read of the file raises at any point, also after entries of
\* earlier lines have been accepted, process_dictionary_file returns an
\* empty list.
C3_ErrorYieldsEmptyList ==
    (pc = "returned" /\ fault # 0) => returned = <<>>

\* C4: every entry process_dictionary_file returns, from a .csv or a .txt
\* file, has a headword that passes is_valid_fijian_text and a non-empty
\* definition.
C4_EntriesValid ==
    pc = "returned" =>
        \A i \in DOMAIN returned :
            /\ is_valid_fijian_text(returned[i].fijian_word)
            /\ returned[i].english_definition # <<>>

\* An entry was returned whose definition would not pass the validator.
C4_Witness ==
    /\ pc = "returned"
    /\ \E i \in DOMAIN returned :
        ~is_valid_fijian_text(returned[i].english_definition)

\* The three conditions of the validator, each on its own: trimmed length
\* at least 3, at least 2 words, at least 0.6 of the characters of the
\* untrimmed string alphabetic.
ThreeConditions(t) ==
    /\ Len(strip(t)) >= 3
    /\ Len(split(t)) >= 2
    /\ 5 * Len(SelectSeq(t, IsAlpha)) >= 3 * Len(t)

PyBool(b) == IF b THEN "True" ELSE "False"

\* C5 as stated: whatever the order in which the three checks are
\* evaluated, the result is True exactly when the three conditions hold,
\* and nothing raises.
C5_AnyOrder ==
    pc = "validated" => result = PyBool(ThreeConditions(text))

\* C5, amended: in the order of the code, and in any order on a non-empty
\* string, the result is True exactly when the three conditions hold and
\* nothing raises.
C5_CodeOrderOrNonEmpty ==
    (pc = "validated" /\ (order = CodeOrder \/ text # <<>>))
    => result = PyBool(ThreeConditions(text))

\* A string with exactly 0.6 of its characters alphabetic was accepted
\* with the ratio check evaluated first.
C5_Witness ==
    /\ pc = "validated"
    /\ order[1] = 3
    /\ 5 * Len(SelectSeq(text, IsAlpha)) = 3 * Len(text)
    /\ text # strip(text)
    /\ result = "True"

\* The files among the paths of a listing.
FilesAmong(paths) == SelectSeq(paths, LAMBDA p : p.is_file)

\* files_processed as the previous call of process_all_files left it: the
\* value it wrote to processing_stats.json, 0 before the first call.
CountedBefore ==
    IF output_dir.processing_stats = <<>> THEN 0
    ELSE output_dir.processing_stats[1].files_processed

\* The branch a file name calls for: the name first, then the extension.
ExpectedRoute(name) ==
    IF Contains(Chars("dict"), lower(name)) THEN "dictionary"
    ELSE IF lower(suffix(name)) \in {Chars(".txt"), Chars(".csv")} THEN "text"
    ELSE "none"

\* C6: every file visited whose name contains "dict" (in any case) went to
\* the dictionary extractor and gave no entries if its extension is
\* neither .csv nor .txt; every other file with a text extension went to
\* the sentence extractor; every other file went to neither; and
\* files_processed has been incremented once per file visited: while the
\* loop runs it is the value the previous run left plus the number of
\* files visited so far.
C6_DispatchPrecedence ==
    /\ \A i \in DOMAIN visits :
        /\ visits[i].route = ExpectedRoute(visits[i].name)
        /\ (/\ visits[i].route = "dictionary"
            /\ lower(suffix(visits[i].name)) \notin {Chars(".txt"), Chars(".csv")})
           => visits[i].count = 0
        /\ visits[i].route = "none" => visits[i].count = 0
    /\ LET done == FilesAmong(listing)
       IN  /\ Len(visits) = Len(done)
           /\ \A k \in DOMAIN done : visits[k].name = done[k].name
    /\ pc = "walking" => stats.files_processed = CountedBefore + Len(visits)
    /\ pc = "saved" => output_dir.processing_stats = <<stats>>

\* A .csv file named after a dictionary went to the dictionary extractor,
\* a dictionary file of another extension gave nothing, and a text file
\* went to the sentence extractor.
C6_Witness ==
    /\ \E i \in DOMAIN visits :
        /\ visits[i].route = "dictionary"
        /\ lower(suffix(visits[i].name)) = Chars(".csv")
        /\ visits[i].count > 0
    /\ \E i \in DOMAIN visits :
        /\ visits[i].route = "text"
        /\ visits[i].count > 0
    /\ Len(visits) = 2
    /\ stats.files_processed = 2

\* C7: the training data built from the entries and the sentences holds
\* one example per entry, in order, each a definition with the headword as
\* input and the definition as output, followed by one completion example
\* per sentence, in order.
C7_DefinitionsThenCompletions ==
    pc = "saved" =>
        /\ Len(training_data) = Len(dictionary_entries) + Len(text_sentences)
        /\ \A i \in DOMAIN dictionary_entries :
            /\ training_data[i].task_type = "definition"
            /\ training_data[i].input = dictionary_entries[i].fijian_word
            /\ training_data[i].output = dictionary_entries[i].english_definition
        /\ \A j \in DOMAIN text_sentences :
            LET ex == training_data[Len(dictionary_entries) + j]
            IN  /\ ex.task_type = "completion"
                /\ ex.input \o ex.output = text_sentences[j]
                /\ Len(ex.input) = Len(text_sentences[j]) \div 2

\* The sentences were extracted before the two dictionary entries, and
\* the definitions still come first.
C7_Witness ==
    /\ pc = "saved"
    /\ Len(listing) = 2
    /\ Route(listing[1].name) = "text"
    /\ Len(dictionary_entries) = 2
    /\ Len(text_sentences) >= 1
    /\ training_data[1].task_type = "definition"
    /\ training_data[3].task_type = "completion"

\* C8: a string clean_text returns has no leading or trailing whitespace
\* and no run of whitespace other than a single space.
C8_CleanedTextShape ==
    pc \in {"cleaned", "recleaned"} =>
        /\ result = strip(result)
        /\ \A i \in DOMAIN result : IsSpace(result[i]) => result[i] = " "
        /\ \A i \in 1..(Len(result) - 1) :
            ~(IsSpace(result[i]) /\ IsSpace(result[i + 1]))

\* C9: the statistics written by a run count the files visited in that
\* run only, and the three line counters are 0.
C9_StatsResetEachRun ==
    pc = "saved" =>
        output_dir.processing_stats =
            <<[files_processed |-> Len(FilesAmong(listing)),
               lines_processed |-> 0, lines_cleaned |-> 0, lines_removed |-> 0]>>

\* C10: the entries of a .txt file come from lines of increasing number;
\* each such line holds the separator, the entry's headword and definition
\* are the cleaned parts before and after its first occurrence, and the
\* source is the file name followed by ":L" and the 1-based number of the
\* line among all lines of the file.
C10_LineNumbers ==
    (pc = "returned" /\ IsTxt(file)) =>
        LET lines == SplitLines(file.content)
        IN  \E f \in [DOMAIN returned -> DOMAIN lines] :
                /\ \A i, j \in DOMAIN returned : i < j => f[i] < f[j]
                /\ \A i \in DOMAIN returned :
                    LET line == strip(lines[f[i]])
                        at == CHOOSE k \in 1..Len(line) :
                                /\ OccursAt(Separator, line, k)
                                /\ \A m \in 1..(k - 1) : ~OccursAt(Separator, line, m)
                    IN  /\ \E k \in 1..Len(line) : OccursAt(Separator, line, k)
                        /\ returned[i].fijian_word = clean_text(SubSeq(line, 1, at - 1))
                        /\ returned[i].english_definition =
                                clean_text(SubSeq(line, at + 3, Len(line)))
                        /\ returned[i].source =
                                file.name \o Chars(":L") \o Decimal(f[i])

\* The first entry comes from line 3, after a blank line and a line
\* without the separator, and its definition holds a second separator.
C10_Witness ==
    /\ pc = "returned"
    /\ IsTxt(file)
    /\ Len(returned) = 1
    /\ LET lines == SplitLines(file.content)
       IN  /\ Len(lines) = 3
           /\ strip(lines[1]) = <<>>
           /\ strip(lines[2]) # <<>>
           /\ returned[1].source = file.name \o Chars(":L3")
           /\ Contains(Separator, returned[1].english_definition)

====
